---- MODULE Spec2Model ----
(***************************************************************************)
(* ls-wrapper: the argument parser (args.rs), the translation engine       *)
(* (translate.rs), the execution collaborator (execute.rs) and main        *)
(* (main.rs) as one state machine.                                         *)
(*                                                                         *)
(* Strings are TLA+ strings; a character is a string of length 1 and       *)
(* SubSeq(s, i, i) is the i-th character.  All inputs are ASCII, so Rust's *)
(* byte offsets and character counts coincide.  Option<T> is a sequence of *)
(* length at most one: <<>> is None and <<v>> is Some(v).                  *)
(***************************************************************************)
EXTENDS Integers, Sequences, FiniteSets, TLC

VARIABLES
    pc,            \* position of main: see the actions below
    args,          \* main.rs:36  `args: Vec<String>` (env::args())
    args_iter,     \* args.rs:58  the tokens LsArgs::parse has not consumed yet
    result,        \* args.rs:57  the LsArgs under construction inside parse
    parse_ret,     \* args.rs:52  Result<LsArgs, String> returned by parse (Option)
    ls_args,       \* main.rs:44  the Option Set main holds after a successful parse
    USERPROFILE,   \* translate.rs:200 the home-directory environment variable (Option)
    translation,   \* main.rs:76  the Translation (Option)
    stdout,        \* lines written to the standard output, in order
    stderr,        \* lines written to the standard error, in order
    spawned,       \* processes spawned so far: <<program, arguments>>
    exec_ret,      \* main.rs:79  io::Result<ExecutionResult> returned by execute (Option)
    exit_code      \* the ExitCode main returns (Option)

vars == <<pc, args, args_iter, result, parse_ret, ls_args, USERPROFILE,
          translation, stdout, stderr, spawned, exec_ret, exit_code>>

(***************************************************************************)
(* Bounds of the model.                                                    *)
(***************************************************************************)
\* tokens after the program name in a run of the whole program
MaxArgs == 3
\* tokens after the program name in a run of the parser alone
MaxParseArgs == 3
\* characters after the leading `-` of a generated short-option bundle
MaxBundle == 3
\* entries of the path list of a generated Option Set
MaxPaths == 1
\* tokens after the program name when the program runs under an alias
MaxAliasArgs == 1

(***************************************************************************)
(* String helpers (Rust's str methods used by the program).                *)
(***************************************************************************)
None == <<>>
Some(v) == <<v>>

CharAt(s, i) == SubSeq(s, i, i)

\* str::starts_with
starts_with(s, p) == Len(s) >= Len(p) /\ SubSeq(s, 1, Len(p)) = p

\* str::contains(char)
contains(s, c) == \E i \in 1..Len(s) : CharAt(s, i) = c

\* str::find(char): the 1-based position of the first occurrence, 0 when absent
find(s, c) ==
    IF contains(s, c)
    THEN CHOOSE i \in 1..Len(s) : CharAt(s, i) = c /\ \A j \in 1..(i-1) : CharAt(s, j) # c
    ELSE 0

\* the position of the last occurrence of any character of cs, 0 when absent
rfind(s, cs) ==
    IF \E i \in 1..Len(s) : CharAt(s, i) \in cs
    THEN CHOOSE i \in 1..Len(s) : CharAt(s, i) \in cs /\ \A j \in (i+1)..Len(s) : CharAt(s, j) \notin cs
    ELSE 0

\* str::replace(char, &str): every occurrence
RECURSIVE replace(_, _, _)
replace(s, c, to) ==
    IF s = "" THEN ""
    ELSE (IF CharAt(s, 1) = c THEN to ELSE CharAt(s, 1)) \o replace(SubSeq(s, 2, Len(s)), c, to)

\* str::replacen(char, &str, 1): the first occurrence only
replacen1(s, c, to) ==
    LET p == find(s, c)
    IN  IF p = 0 THEN s ELSE SubSeq(s, 1, p - 1) \o to \o SubSeq(s, p + 1, Len(s))

\* [&str]::join(sep)
RECURSIVE join(_, _)
join(parts, sep) ==
    IF parts = <<>> THEN ""
    ELSE IF Len(parts) = 1 THEN parts[1]
    ELSE parts[1] \o sep \o join(Tail(parts), sep)

(***************************************************************************)
(* args.rs: the Option Set and its parser.                                 *)
(***************************************************************************)
BoolFields == {"long_format", "all", "almost_all", "human_readable", "one_per_line",
               "recursive", "directory", "classify", "show_size",
               "sort_by_time", "sort_by_size", "reverse", "no_sort",
               "explain", "teach", "native", "use_powershell", "use_cmd",
               "help", "version", "rosetta", "tree"}

ColorOption == {"Auto", "Always", "Never"}

\* #[derive(Default)]: every flag false, color Auto, no path
LsArgsDefault ==
    [long_format |-> FALSE, all |-> FALSE, almost_all |-> FALSE, human_readable |-> FALSE,
     one_per_line |-> FALSE, recursive |-> FALSE, directory |-> FALSE, classify |-> FALSE,
     show_size |-> FALSE,
     sort_by_time |-> FALSE, sort_by_size |-> FALSE, reverse |-> FALSE, no_sort |-> FALSE,
     color |-> "Auto",
     explain |-> FALSE, teach |-> FALSE, native |-> FALSE, use_powershell |-> FALSE,
     use_cmd |-> FALSE,
     help |-> FALSE, version |-> FALSE, rosetta |-> FALSE, tree |-> FALSE,
     paths |-> <<>>]

\* Result<T, String>: <<"Ok", v>> or <<"Err", message>>
Ok(v) == <<"Ok", v>>
Err(e) == <<"Err", e>>
is_ok(r) == r[1] = "Ok"
is_err(r) == r[1] = "Err"

\* what a helper taking `args: &mut LsArgs` leaves behind: the LsArgs as it
\* stands when the helper returns, and the helper's Result<(), String>
Outcome(a, ret) == [a |-> a, ret |-> ret]

\* the match on the value of `--color[=WHEN]`: Ok(color) or Err(message)
ColorValue(value) ==
    IF value = None THEN Ok("Auto")
    ELSE LET v == value[1]
         IN  IF v \in {"always", "yes", "force"} THEN Ok("Always")
             ELSE IF v \in {"never", "no", "none"} THEN Ok("Never")
             ELSE IF v \in {"auto", "tty", "if-tty"} THEN Ok("Auto")
             ELSE Err("Unknown color option: " \o v)

\* the match arms of parse_long_option: the field a long name sets
LongField(name) ==
    CASE name = "all" -> "all"
      [] name = "almost-all" -> "almost_all"
      [] name = "human-readable" -> "human_readable"
      [] name = "recursive" -> "recursive"
      [] name = "directory" -> "directory"
      [] name = "classify" -> "classify"
      [] name = "reverse" -> "reverse"
      [] name = "explain" -> "explain"
      [] name = "teach" -> "teach"
      [] name = "native" -> "native"
      [] name \in {"powershell", "ps"} -> "use_powershell"
      [] name = "cmd" -> "use_cmd"
      [] name = "help" -> "help"
      [] name = "version" -> "version"
      [] name \in {"rosetta", "cheatsheet"} -> "rosetta"
      [] name = "tree" -> "tree"
      [] OTHER -> ""

\* the name of a long option: the text between `--` and the first `=`
LongName(opt0) ==
    LET opt == SubSeq(opt0, 3, Len(opt0))
        pos == find(opt, "=")
    IN  IF pos > 0 THEN SubSeq(opt, 1, pos - 1) ELSE opt

\* the inline value of a long option: the text after the first `=`, if any
LongValue(opt0) ==
    LET opt == SubSeq(opt0, 3, Len(opt0))
        pos == find(opt, "=")
    IN  IF pos > 0 THEN Some(SubSeq(opt, pos + 1, Len(opt))) ELSE None

\* parse_long_option(args, opt)
parse_long_option(a, opt0) ==
    LET name  == LongName(opt0)
        value == LongValue(opt0)
    IN  IF name = "color"
        THEN LET c == ColorValue(value)
             IN  IF is_ok(c) THEN Outcome([a EXCEPT !.color = c[2]], Ok(<<>>))
                 ELSE Outcome(a, c)
        ELSE IF LongField(name) # ""
        THEN Outcome([a EXCEPT ![LongField(name)] = TRUE], Ok(<<>>))
        ELSE Outcome(a, Err("Unknown option: --" \o name))

\* the match arms of parse_short_options: the field a character sets
ShortField(c) ==
    CASE c = "l" -> "long_format"
      [] c = "a" -> "all"
      [] c = "A" -> "almost_all"
      [] c = "h" -> "human_readable"
      [] c = "1" -> "one_per_line"
      [] c = "R" -> "recursive"
      [] c = "d" -> "directory"
      [] c = "F" -> "classify"
      [] c = "s" -> "show_size"
      [] c = "t" -> "sort_by_time"
      [] c = "S" -> "sort_by_size"
      [] c = "r" -> "reverse"
      [] c = "U" -> "no_sort"
      [] c = "?" -> "help"
      [] OTHER -> ""

\* ShortChar with an unknown character skipped instead of reported
ShortChar_SkipUnknown(a, c) ==
    IF ShortField(c) # ""
    THEN Outcome([a EXCEPT ![ShortField(c)] = TRUE], Ok(<<>>))
    ELSE Outcome(a, Ok(<<>>))

\* ShortChar with the flag toggled instead of set
ShortChar_Toggle(a, c) ==
    IF ShortField(c) # ""
    THEN Outcome([a EXCEPT ![ShortField(c)] = ~@], Ok(<<>>))
    ELSE Outcome(a, Err("Unknown option: -" \o c))

\* the body of the loop of parse_short_options, for one character
ShortChar(a, c) ==
    IF ShortField(c) # ""
    THEN Outcome([a EXCEPT ![ShortField(c)] = TRUE], Ok(<<>>))
    ELSE Outcome(a, Err("Unknown option: -" \o c))

\* the loop of parse_short_options over the characters chars, left to right
RECURSIVE ShortChars(_, _)
ShortChars(a, chars) ==
    IF chars = "" THEN Outcome(a, Ok(<<>>))
    ELSE LET r == ShortChar(a, CharAt(chars, 1))
         IN  IF is_ok(r.ret) THEN ShortChars(r.a, SubSeq(chars, 2, Len(chars))) ELSE r

\* parse_short_options(args, opt): skips the leading `-`
parse_short_options(a, opt) == ShortChars(a, SubSeq(opt, 2, Len(opt)))

(***************************************************************************)
(* translate.rs: the translation engine.                                   *)
(***************************************************************************)
\* to_windows_path with every `~` replaced by the home directory
to_windows_path_EveryTilde(path) ==
    LET slashed == replace(path, "/", "\\")
    IN  IF starts_with(slashed, "~") /\ USERPROFILE # None
        THEN replace(slashed, "~", USERPROFILE[1])
        ELSE slashed

\* to_windows_path(path): `/` becomes `\`, then a leading `~` becomes the
\* value of USERPROFILE when the variable is set
to_windows_path(path) ==
    LET slashed == replace(path, "/", "\\")
    IN  IF starts_with(slashed, "~") /\ USERPROFILE # None
        THEN replacen1(slashed, "~", USERPROFILE[1])
        ELSE slashed

\* the body of the path loops of both builders: the path, quoted when its
\* converted form holds a space
QuotedPath(path) ==
    LET win_path == to_windows_path(path)
    IN  IF contains(win_path, " ") THEN "\"" \o win_path \o "\"" ELSE win_path

\* DirHiddenFlags with almost-all forgotten
DirHiddenFlags_AllOnly(a) == IF a.all THEN <<"/A">> ELSE <<>>

\* the flag that shows hidden files: /A in the legacy form
DirHiddenFlags(a) == IF a.all \/ a.almost_all THEN <<"/A">> ELSE <<>>

\* /S (recursive), /AD (directories only)
DirRecurseFlags(a) ==
    (IF a.recursive THEN <<"/S">> ELSE <<>>) \o (IF a.directory THEN <<"/AD">> ELSE <<>>)

\* DirBareFlags with long format not looked at
DirBareFlags_IgnoreLong(a) == IF a.one_per_line THEN <<"/B">> ELSE <<>>

\* /B (bare format): one-per-line without long format
DirBareFlags(a) == IF a.one_per_line /\ ~a.long_format THEN <<"/B">> ELSE <<>>

\* DirSortFlags with size looked at before time
DirSortFlags_SizeFirst(a) ==
    IF a.no_sort THEN <<>>
    ELSE IF a.sort_by_size THEN (IF a.reverse THEN <<"/OS">> ELSE <<"/O-S">>)
    ELSE IF a.sort_by_time THEN (IF a.reverse THEN <<"/OD">> ELSE <<"/O-D">>)
    ELSE IF a.reverse THEN <<"/O-N">>
    ELSE <<>>

\* the sort flag of the legacy form
DirSortFlags(a) ==
    IF a.no_sort THEN <<>>
    ELSE IF a.sort_by_time THEN (IF a.reverse THEN <<"/OD">> ELSE <<"/O-D">>)
    ELSE IF a.sort_by_size THEN (IF a.reverse THEN <<"/OS">> ELSE <<"/O-S">>)
    ELSE IF a.reverse THEN <<"/O-N">>
    ELSE <<>>

\* `flags` of build_dir_command, in push order
DirFlags(a) == DirHiddenFlags(a) \o DirRecurseFlags(a) \o DirBareFlags(a) \o DirSortFlags(a)

\* the loops `cmd.push(' '); cmd.push_str(x)` over a vector
RECURSIVE PushAll(_, _, _)
PushAll(cmd, sep, xs) ==
    IF xs = <<>> THEN cmd ELSE PushAll(cmd \o sep \o xs[1], sep, Tail(xs))

\* the paths of an Option Set, each converted and quoted
QuotedPaths(a) == [i \in 1..Len(a.paths) |-> QuotedPath(a.paths[i])]

build_dir_command(a) == PushAll(PushAll("dir", " ", DirFlags(a)), " ", QuotedPaths(a))

\* `params` of build_powershell_command, in push order
PsParams(a) ==
    (IF a.all \/ a.almost_all THEN <<"-Force">> ELSE <<>>)
    \o (IF a.recursive THEN <<"-Recurse">> ELSE <<>>)
    \o (IF a.directory THEN <<"-Directory">> ELSE <<>>)

\* the sorting stage of the modern form
PsSort(a) ==
    IF a.no_sort THEN ""
    ELSE IF a.sort_by_time
         THEN " | Sort-Object LastWriteTime" \o (IF ~a.reverse THEN " -Descending" ELSE "")
    ELSE IF a.sort_by_size
         THEN " | Sort-Object Length" \o (IF ~a.reverse THEN " -Descending" ELSE "")
    ELSE IF a.reverse THEN " | Sort-Object Name -Descending"
    ELSE ""

\* the formatting stage of the modern form
PsFormat(a) ==
    IF a.long_format THEN " | Format-Table Mode, LastWriteTime, Length, Name -AutoSize"
    ELSE IF a.one_per_line THEN " | Select-Object -ExpandProperty Name"
    ELSE ""

build_powershell_command(a) ==
    PushAll(PushAll("Get-ChildItem", " ", PsParams(a)), " -Path ", QuotedPaths(a))
        \o PsSort(a) \o PsFormat(a)

\* DescriptionParts with almost-all described as show-hidden too
DescriptionParts_AlmostAll(a) ==
    (IF a.all \/ a.almost_all THEN <<"show hidden files">> ELSE <<>>)
    \o (IF a.long_format THEN <<"long format">> ELSE <<>>)
    \o (IF a.recursive THEN <<"recursive">> ELSE <<>>)
    \o (IF a.sort_by_time THEN <<"sort by time">> ELSE <<>>)
    \o (IF a.sort_by_size THEN <<"sort by size">> ELSE <<>>)
    \o (IF a.reverse THEN <<"reverse order">> ELSE <<>>)
    \o (IF a.human_readable THEN <<"human-readable sizes">> ELSE <<>>)

\* `parts` of build_description, in push order
DescriptionParts(a) ==
    (IF a.all THEN <<"show hidden files">> ELSE <<>>)
    \o (IF a.long_format THEN <<"long format">> ELSE <<>>)
    \o (IF a.recursive THEN <<"recursive">> ELSE <<>>)
    \o (IF a.sort_by_time THEN <<"sort by time">> ELSE <<>>)
    \o (IF a.sort_by_size THEN <<"sort by size">> ELSE <<>>)
    \o (IF a.reverse THEN <<"reverse order">> ELSE <<>>)
    \o (IF a.human_readable THEN <<"human-readable sizes">> ELSE <<>>)

build_description(a) ==
    IF DescriptionParts(a) = <<>> THEN "list directory contents"
    ELSE "list directory contents (" \o join(DescriptionParts(a), ", ") \o ")"

translate(a) ==
    [cmd_command |-> build_dir_command(a),
     powershell_command |-> build_powershell_command(a),
     description |-> build_description(a)]

(***************************************************************************)
(* execute.rs: the execution collaborator.                                 *)
(***************************************************************************)
\* the backend execute selects
SelectBackend(a) ==
    IF a.use_powershell THEN "PowerShell"
    ELSE IF a.use_cmd THEN "Cmd"
    ELSE IF a.human_readable \/ a.long_format THEN "PowerShell"
    ELSE "Cmd"

\* (program, cmd_args) for the backend
SpawnOf(backend, t) ==
    IF backend = "Cmd" THEN <<"cmd.exe", <<"/C", t.cmd_command>>>>
    ELSE <<"powershell.exe", <<"-NoProfile", "-Command", t.powershell_command>>>>

\* command_str for the backend
command_str(backend, t) ==
    IF backend = "Cmd" THEN t.cmd_command ELSE t.powershell_command

\* ExecutionResult
ExecutionResult(success, code) == [success |-> success, exit_code |-> code]

\* print_help: the title and the EXAMPLES section of the static text
HelpText ==
    "ls-wrapper - A lightweight ls transpiler for Windows\n"
    \o "EXAMPLES:\n"
    \o "    ls --explain -la  See how -la translates to Windows\n"
    \o "    ls --native -la   Output: dir /A .\n"

\* the package version, set by the package manifest
CARGO_PKG_VERSION == "0.1.0"

\* print_rosetta: the title of the static table
RosettaText == "UNIX -> WINDOWS CHEAT SHEET\n"

\* `result.exit_code as u8`: the low eight bits of the two's complement
as_u8(code) == code % 256

(***************************************************************************)
(* main.rs: alias detection.                                               *)
(***************************************************************************)
\* Path::file_stem of the program name (Windows: `/` and `\` both separate
\* components): the last component, without its final extension
file_stem(program_name) ==
    LET cut  == rfind(program_name, {"/", "\\"})
        name == SubSeq(program_name, cut + 1, Len(program_name))
        dot  == rfind(name, {"."})
    IN  IF name \in {"", ".", ".."} THEN None
        ELSE IF dot <= 1 THEN Some(name)
        ELSE Some(SubSeq(name, 1, dot - 1))

\* get_alias_flags(program_name)
get_alias_flags(program_name) ==
    LET stem == file_stem(program_name)
        name == IF stem = None THEN "" ELSE stem[1]
    IN  IF name = "ll" THEN Some("-l")
        ELSE IF name = "la" THEN Some("-la")
        ELSE IF name = "l" THEN Some("-F")
        ELSE None

\* args.first().and_then(get_alias_flags), then args.insert(1, flags)
WithAlias(argv) ==
    IF argv # <<>> /\ get_alias_flags(argv[1]) # None
    THEN <<argv[1]>> \o get_alias_flags(argv[1]) \o Tail(argv)
    ELSE argv

(***************************************************************************)
(* Inputs.                                                                 *)
(***************************************************************************)
\* names the binary is invoked under that are aliases
AliasNames == {"la", "ll.exe", "C:\\bin\\l.exe"}

\* the argument vector is one of: none at all, `ls` with up to n tokens, an
\* alias (or another name) with up to MaxAliasArgs tokens
ArgvIn(tokens, n) ==
    \/ args = <<>>
    \/ \E k \in 0..n : \E rest \in [1..k -> tokens] : args = <<"ls">> \o rest
    \/ \E p \in AliasNames \cup {"--"} :
          \E k \in 0..MaxAliasArgs : \E rest \in [1..k -> tokens] : args = <<p>> \o rest

\* tokens of a run of the whole program
MainTokens == {"--explain", "--native", "--teach", "--help", "--version", "--rosetta",
               "--tree", "--powershell", "--cmd", "-la", "--bogus", "--", "src"}

\* tokens of a run of the parser
ParseTokens == {"--", "-l", "-a1", "-lZ", "-", "--all", "--bogus", "--bogus=1", "--color",
                "--color=never", "--color=sepia", "--help", "src", "my docs"}

\* the short-option vocabulary
ShortVocabulary == {"l", "a", "A", "h", "1", "R", "d", "F", "s", "t", "S", "r", "U", "?"}

\* the values of the home-directory variable
HomeValues == {None, Some("C:\\Users\\x"), Some("C:\\My Docs~1")}

\* the argument vector holds a short-option bundle of the vocabulary, alone
\* or after a token that has set other fields
ArgvBundle ==
    \E pre \in {<<>>, <<"-sU">>, <<"--color=never">>} :
        \E k \in 1..MaxBundle : \E cs \in [1..k -> ShortVocabulary] :
            args = <<"ls">> \o pre \o <<"-" \o join(cs, "")>>

\* the paths of a generated Option Set
PathPool == {"src", "a/b c", "~/docs", "~/a~", "/A"}

\* an Option Set translate is called with: the flags the engine reads are
\* f[1..11], the other fields are as in LsArgs::default()
OptionSet(f, ps) ==
    [LsArgsDefault EXCEPT
        !.long_format = f[1], !.all = f[2], !.almost_all = f[3], !.human_readable = f[4],
        !.one_per_line = f[5], !.recursive = f[6], !.directory = f[7],
        !.sort_by_time = f[8], !.sort_by_size = f[9], !.reverse = f[10], !.no_sort = f[11],
        !.paths = ps]

\* how a spawned process ends: ExitStatus::success() and ExitStatus::code()
ChildCodes == {0, 1, 2, 255, 256, 512, -1, -256, 2147483647, -2147483647 - 1}
ChildStatus ==
    {[success |-> c = 0, code |-> Some(c)] : c \in ChildCodes}
        \cup {[success |-> FALSE, code |-> None]}
ChildStdout == {"", "a.txt\n"}
ChildStderr == {"", "File Not Found\n"}
\* Command::output(): an io::Error, or the Output of the process
ChildOutputs ==
    {Err("program not found")}
        \cup {Ok([status |-> st, stdout |-> o, stderr |-> e]) :
                 st \in ChildStatus, o \in ChildStdout, e \in ChildStderr}

(***************************************************************************)
(* The state machine.                                                      *)
(***************************************************************************)
InitWith(homes) ==
    /\ pc = "main"
    /\ args_iter = <<>>
    /\ result = LsArgsDefault
    /\ parse_ret = None
    /\ ls_args = None
    /\ USERPROFILE \in homes
    /\ translation = None
    /\ stdout = <<>>
    /\ stderr = <<>>
    /\ spawned = <<>>
    /\ exec_ret = None
    /\ exit_code = None

Init == ArgvIn(MainTokens, MaxArgs) /\ InitWith({None, Some("C:\\Users\\x")})

\* main.rs:36-44 and args.rs:57-61: collect the arguments, insert the alias
\* flags, enter parse and skip the program name
MainArgs ==
    /\ pc = "main"
    /\ args' = WithAlias(args)
    /\ args_iter' = IF args' = <<>> THEN <<>> ELSE Tail(args')
    /\ result' = LsArgsDefault
    /\ pc' = "parse"
    /\ UNCHANGED <<parse_ret, ls_args, USERPROFILE, translation, stdout, stderr,
                   spawned, exec_ret, exit_code>>

\* what the parser leaves: `?` returns the error, else the loop goes on
AfterOption(r) ==
    /\ result' = r.a
    /\ IF is_ok(r.ret)
       THEN /\ args_iter' = Tail(args_iter)
            /\ UNCHANGED <<pc, parse_ret>>
       ELSE /\ parse_ret' = Some(r.ret)
            /\ pc' = "parsed"
            /\ UNCHANGED args_iter
    /\ UNCHANGED <<args, ls_args, USERPROFILE, translation, stdout, stderr,
                   spawned, exec_ret, exit_code>>

\* args.rs:66: the token `--`
ParseDashDash ==
    /\ pc = "parse" /\ args_iter # <<>>
    /\ Head(args_iter) = "--"
    /\ args_iter' = Tail(args_iter)
    /\ pc' = "parse_rest"
    /\ UNCHANGED <<args, result, parse_ret, ls_args, USERPROFILE, translation, stdout,
                   stderr, spawned, exec_ret, exit_code>>

\* ParseRemaining with a token that looks like an option left out
ParseRemaining_DropOptions ==
    /\ pc = "parse_rest" /\ args_iter # <<>>
    /\ result' = IF starts_with(Head(args_iter), "-") THEN result
                  ELSE [result EXCEPT !.paths = Append(@, Head(args_iter))]
    /\ args_iter' = Tail(args_iter)
    /\ UNCHANGED <<pc, args, parse_ret, ls_args, USERPROFILE, translation, stdout,
                   stderr, spawned, exec_ret, exit_code>>

\* args.rs:68-70: one turn of the loop over the tokens after `--`
ParseRemaining ==
    /\ pc = "parse_rest" /\ args_iter # <<>>
    /\ result' = [result EXCEPT !.paths = Append(@, Head(args_iter))]
    /\ args_iter' = Tail(args_iter)
    /\ UNCHANGED <<pc, args, parse_ret, ls_args, USERPROFILE, translation, stdout,
                   stderr, spawned, exec_ret, exit_code>>

\* args.rs:72-74: a long option
ParseLongOption ==
    /\ pc = "parse" /\ args_iter # <<>>
    /\ Head(args_iter) # "--"
    /\ starts_with(Head(args_iter), "--")
    /\ AfterOption(parse_long_option(result, Head(args_iter)))

\* args.rs:75-77: a bundle of short options
ParseShortOptions ==
    /\ pc = "parse" /\ args_iter # <<>>
    /\ ~starts_with(Head(args_iter), "--")
    /\ starts_with(Head(args_iter), "-") /\ Len(Head(args_iter)) > 1
    /\ AfterOption(parse_short_options(result, Head(args_iter)))

\* args.rs:78-81: a path
ParsePath ==
    /\ pc = "parse" /\ args_iter # <<>>
    /\ ~starts_with(Head(args_iter), "--")
    /\ ~(starts_with(Head(args_iter), "-") /\ Len(Head(args_iter)) > 1)
    /\ result' = [result EXCEPT !.paths = Append(@, Head(args_iter))]
    /\ args_iter' = Tail(args_iter)
    /\ UNCHANGED <<pc, args, parse_ret, ls_args, USERPROFILE, translation, stdout,
                   stderr, spawned, exec_ret, exit_code>>

\* WithDefaultPath with the default entry pushed whatever the list holds
WithDefaultPath_Always(a) == [a EXCEPT !.paths = Append(@, ".")]

\* args.rs:84-87: the default path
WithDefaultPath(a) == IF a.paths = <<>> THEN [a EXCEPT !.paths = <<".">>] ELSE a

\* args.rs:84-89: the tokens are used up (or the loop was left after `--`)
ParseEnd ==
    /\ pc \in {"parse", "parse_rest"} /\ args_iter = <<>>
    /\ result' = WithDefaultPath(result)
    /\ parse_ret' = Some(Ok(result'))
    /\ pc' = "parsed"
    /\ UNCHANGED <<args, args_iter, ls_args, USERPROFILE, translation, stdout, stderr,
                   spawned, exec_ret, exit_code>>

NextParse ==
    \/ MainArgs
    \/ ParseDashDash
    \/ ParseRemaining
    \/ ParseLongOption
    \/ ParseShortOptions
    \/ ParsePath
    \/ ParseEnd

\* MainParseErr returning ExitCode::SUCCESS
MainParseErr_Success ==
    /\ pc = "parsed" /\ is_err(parse_ret[1])
    /\ stderr' = stderr \o <<"ls-wrapper: " \o parse_ret[1][2] \o "\n",
                             "Try 'ls --help' for more information.\n">>
    /\ exit_code' = Some(0)
    /\ pc' = "exit"
    /\ UNCHANGED <<args, args_iter, result, parse_ret, ls_args, USERPROFILE, translation,
                   stdout, spawned, exec_ret>>

\* main.rs:46-50: the parse error is reported and main returns 1
MainParseErr ==
    /\ pc = "parsed" /\ is_err(parse_ret[1])
    /\ stderr' = stderr \o <<"ls-wrapper: " \o parse_ret[1][2] \o "\n",
                             "Try 'ls --help' for more information.\n">>
    /\ exit_code' = Some(1)
    /\ pc' = "exit"
    /\ UNCHANGED <<args, args_iter, result, parse_ret, ls_args, USERPROFILE, translation,
                   stdout, spawned, exec_ret>>

\* main.rs:45: the Option Set main goes on with
Parsed == parse_ret[1][2]

\* main.rs:54-57
MainHelp ==
    /\ pc = "parsed" /\ is_ok(parse_ret[1])
    /\ Parsed.help
    /\ ls_args' = Some(Parsed)
    /\ stdout' = Append(stdout, HelpText \o "\n")
    /\ exit_code' = Some(0)
    /\ pc' = "exit"
    /\ UNCHANGED <<args, args_iter, result, parse_ret, USERPROFILE, translation,
                   stderr, spawned, exec_ret>>

\* main.rs:59-62
MainVersion ==
    /\ pc = "parsed" /\ is_ok(parse_ret[1])
    /\ ~Parsed.help /\ Parsed.version
    /\ ls_args' = Some(Parsed)
    /\ stdout' = Append(stdout, "ls-wrapper " \o CARGO_PKG_VERSION \o "\n")
    /\ exit_code' = Some(0)
    /\ pc' = "exit"
    /\ UNCHANGED <<args, args_iter, result, parse_ret, USERPROFILE, translation,
                   stderr, spawned, exec_ret>>

\* main.rs:65-68
MainRosetta ==
    /\ pc = "parsed" /\ is_ok(parse_ret[1])
    /\ ~Parsed.help /\ ~Parsed.version /\ Parsed.rosetta
    /\ ls_args' = Some(Parsed)
    /\ stdout' = Append(stdout, RosettaText \o "\n")
    /\ exit_code' = Some(0)
    /\ pc' = "exit"
    /\ UNCHANGED <<args, args_iter, result, parse_ret, USERPROFILE, translation,
                   stderr, spawned, exec_ret>>

\* the stream after write_all(bytes)
Written(stream, bytes) == IF bytes = "" THEN stream ELSE Append(stream, bytes)

\* main.rs:71-73 and run_tree (main.rs:95-120)
MainTree ==
    /\ pc = "parsed" /\ is_ok(parse_ret[1])
    /\ ~Parsed.help /\ ~Parsed.version /\ ~Parsed.rosetta /\ Parsed.tree
    /\ ls_args' = Some(Parsed)
    /\ LET path == IF Parsed.paths = <<>> THEN "." ELSE Parsed.paths[1]
       IN  spawned' = Append(spawned, <<"cmd.exe", <<"/C", "tree", "/F", path>>>>)
    /\ \E output \in ChildOutputs :
          IF is_ok(output)
          THEN /\ stdout' = Written(stdout, output[2].stdout)
               /\ stderr' = Written(stderr, output[2].stderr)
               /\ exit_code' = Some(IF output[2].status.success THEN 0 ELSE 1)
          ELSE /\ stderr' = Append(stderr, "ls-wrapper: failed to run tree: " \o output[2] \o "\n")
               /\ exit_code' = Some(1)
               /\ UNCHANGED stdout
    /\ pc' = "exit"
    /\ UNCHANGED <<args, args_iter, result, parse_ret, USERPROFILE, translation, exec_ret>>

\* main.rs:76: translate
MainTranslate ==
    /\ pc = "parsed" /\ is_ok(parse_ret[1])
    /\ ~Parsed.help /\ ~Parsed.version /\ ~Parsed.rosetta /\ ~Parsed.tree
    /\ ls_args' = Some(Parsed)
    /\ translation' = Some(translate(Parsed))
    /\ pc' = "execute"
    /\ UNCHANGED <<args, args_iter, result, parse_ret, USERPROFILE, stdout, stderr,
                   spawned, exec_ret, exit_code>>

\* execute.rs:57-66: explain mode
ExecuteExplain ==
    /\ pc = "execute"
    /\ ls_args[1].explain
    /\ stdout' = stdout \o <<"Command (cmd.exe):    " \o translation[1].cmd_command \o "\n",
                             "Command (PowerShell): " \o translation[1].powershell_command \o "\n",
                             "\n",
                             "Description: " \o translation[1].description \o "\n">>
    /\ exec_ret' = Some(Ok(ExecutionResult(TRUE, 0)))
    /\ pc' = "executed"
    /\ UNCHANGED <<args, args_iter, result, parse_ret, ls_args, USERPROFILE, translation,
                   stderr, spawned, exit_code>>

\* execute.rs:69-78: native mode
ExecuteNative ==
    /\ pc = "execute"
    /\ ~ls_args[1].explain /\ ls_args[1].native
    /\ stdout' = Append(stdout, command_str(SelectBackend(ls_args[1]), translation[1]) \o "\n")
    /\ exec_ret' = Some(Ok(ExecutionResult(TRUE, 0)))
    /\ pc' = "executed"
    /\ UNCHANGED <<args, args_iter, result, parse_ret, ls_args, USERPROFILE, translation,
                   stderr, spawned, exit_code>>

\* ExecuteTeach reached without the native mode having returned
ExecuteTeach_IgnoreNative ==
    /\ pc = "execute"
    /\ ~ls_args[1].explain
    /\ stderr' = IF ls_args[1].teach
                 THEN stderr \o <<"Executing: "
                                    \o command_str(SelectBackend(ls_args[1]), translation[1])
                                    \o "\n",
                                  "---\n">>
                 ELSE stderr
    /\ pc' = "spawn"
    /\ UNCHANGED <<args, args_iter, result, parse_ret, ls_args, USERPROFILE, translation,
                   stdout, spawned, exec_ret, exit_code>>

\* execute.rs:81-84: teach mode prints the command, then execution goes on
ExecuteTeach ==
    /\ pc = "execute"
    /\ ~ls_args[1].explain /\ ~ls_args[1].native
    /\ stderr' = IF ls_args[1].teach
                 THEN stderr \o <<"Executing: "
                                    \o command_str(SelectBackend(ls_args[1]), translation[1])
                                    \o "\n",
                                  "---\n">>
                 ELSE stderr
    /\ pc' = "spawn"
    /\ UNCHANGED <<args, args_iter, result, parse_ret, ls_args, USERPROFILE, translation,
                   stdout, spawned, exec_ret, exit_code>>

\* execute.rs:87-111: run the command and relay its output
ExecuteSpawn ==
    /\ pc = "spawn"
    /\ spawned' = Append(spawned, SpawnOf(SelectBackend(ls_args[1]), translation[1]))
    /\ \E output \in ChildOutputs :
          IF is_ok(output)
          THEN /\ stdout' = Written(stdout, output[2].stdout)
               /\ stderr' = Written(stderr, output[2].stderr)
               /\ exec_ret' = Some(Ok(ExecutionResult(
                                  output[2].status.success,
                                  IF output[2].status.code = None THEN -1
                                  ELSE output[2].status.code[1])))
          ELSE /\ exec_ret' = Some(output)
               /\ UNCHANGED <<stdout, stderr>>
    /\ pc' = "executed"
    /\ UNCHANGED <<args, args_iter, result, parse_ret, ls_args, USERPROFILE, translation,
                   exit_code>>

\* main.rs:79-91: the exit status
MainExit ==
    /\ pc = "executed"
    /\ IF is_ok(exec_ret[1])
       THEN /\ exit_code' = Some(IF exec_ret[1][2].success THEN 0
                                 ELSE as_u8(exec_ret[1][2].exit_code))
            /\ UNCHANGED stderr
       ELSE /\ stderr' = Append(stderr, "ls-wrapper: execution error: " \o exec_ret[1][2] \o "\n")
            /\ exit_code' = Some(1)
    /\ pc' = "exit"
    /\ UNCHANGED <<args, args_iter, result, parse_ret, ls_args, USERPROFILE, translation,
                   stdout, spawned, exec_ret>>

Next ==
    \/ NextParse
    \/ MainParseErr
    \/ MainHelp
    \/ MainVersion
    \/ MainRosetta
    \/ MainTree
    \/ MainTranslate
    \/ ExecuteExplain
    \/ ExecuteNative
    \/ ExecuteTeach
    \/ ExecuteSpawn
    \/ MainExit

Spec == Init /\ [][Next]_vars

(***************************************************************************)
(* The parser alone: main up to the return of LsArgs::parse.               *)
(***************************************************************************)
InitParse == (ArgvIn(ParseTokens, MaxParseArgs) \/ ArgvBundle) /\ InitWith({None})

SpecParse == InitParse /\ [][NextParse]_vars

(***************************************************************************)
(* The engine alone: translate called with any Option Set, as the unit     *)
(* tests of translate.rs call it.                                          *)
(***************************************************************************)
InitTranslate ==
    /\ pc = "translate"
    /\ args = <<>>
    /\ args_iter = <<>>
    /\ result = LsArgsDefault
    /\ parse_ret = None
    /\ \E f \in [1..11 -> BOOLEAN] :
          \E k \in 0..MaxPaths : \E ps \in [1..k -> PathPool] :
              ls_args = Some(OptionSet(f, ps))
    /\ USERPROFILE \in HomeValues
    /\ translation = None
    /\ stdout = <<>>
    /\ stderr = <<>>
    /\ spawned = <<>>
    /\ exec_ret = None
    /\ exit_code = None

\* translate.rs:14-24
Translate ==
    /\ pc = "translate"
    /\ translation' = Some(translate(ls_args[1]))
    /\ pc' = "translated"
    /\ UNCHANGED <<args, args_iter, result, parse_ret, ls_args, USERPROFILE, stdout, stderr,
                   spawned, exec_ret, exit_code>>

NextTranslate == Translate

SpecTranslate == InitTranslate /\ [][NextTranslate]_vars

(***************************************************************************)
(* Properties of the parser (checked under SpecParse).                     *)
(***************************************************************************)
\* the tokens parse scans: the argument vector without the program name
Tokens == IF args = <<>> THEN <<>> ELSE Tail(args)

\* the tokens parse has consumed so far
Consumed == SubSeq(Tokens, 1, Len(Tokens) - Len(args_iter))

\* a token that is read as an option: `-x...` or `--...`, but not `-` alone
LooksLikeOption(t) == Len(t) > 1 /\ CharAt(t, 1) = "-"

\* the path tokens of a token list: before the first `--` the tokens that do
\* not look like options, after it every token
RECURSIVE PathTokens(_)
PathTokens(ts) ==
    IF ts = <<>> THEN <<>>
    ELSE IF ts[1] = "--" THEN Tail(ts)
    ELSE IF LooksLikeOption(ts[1]) THEN PathTokens(Tail(ts))
    ELSE <<ts[1]>> \o PathTokens(Tail(ts))

ParsedOk == pc = "parsed" /\ is_ok(parse_ret[1])
ParsedErr == pc = "parsed" /\ is_err(parse_ret[1])

\* C1: whenever parse succeeds the paths list is not empty: it is exactly
\* ["."] when no path token was collected, and otherwise exactly the collected
\* path tokens in input order, with no default entry added.
C1_PathsNeverEmpty ==
    ParsedOk =>
        /\ Len(parse_ret[1][2].paths) >= 1
        /\ parse_ret[1][2].paths =
              IF PathTokens(Tokens) = <<>> THEN <<".">> ELSE PathTokens(Tokens)

\* `ls -l src` (with one more path after it) keeps exactly the paths given
C1_Witness ==
    /\ ParsedOk
    /\ args = <<"ls", "-l", "src", "my docs">>
    /\ parse_ret[1][2].paths = <<"src", "my docs">>

\* the vocabularies of section 4.1 of the specification
LongVocabulary == {"all", "almost-all", "human-readable", "recursive", "directory",
                   "classify", "reverse", "color", "explain", "teach", "native",
                   "powershell", "ps", "cmd", "help", "version", "rosetta", "cheatsheet",
                   "tree"}
ColorVocabulary == {"always", "yes", "force", "never", "no", "none", "auto", "tty", "if-tty"}

\* the text of s before its first `=` (all of s when it has none)
BeforeEq(s) ==
    IF \E i \in 1..Len(s) : CharAt(s, i) = "="
    THEN SubSeq(s, 1, (CHOOSE i \in 1..Len(s) :
                          CharAt(s, i) = "=" /\ \A j \in 1..(i-1) : CharAt(s, j) # "=") - 1)
    ELSE s

\* the first unknown character of a bundle's characters, if any
RECURSIVE FirstUnknownChar(_)
FirstUnknownChar(cs) ==
    IF cs = "" THEN None
    ELSE IF CharAt(cs, 1) \notin ShortVocabulary THEN Some(CharAt(cs, 1))
    ELSE FirstUnknownChar(SubSeq(cs, 2, Len(cs)))

\* what makes a token invalid: the unknown long name, the unknown color
\* value or the first unknown short character; None for a valid token
Offender(t) ==
    IF ~LooksLikeOption(t) THEN None
    ELSE IF CharAt(t, 2) = "-"
    THEN LET body == SubSeq(t, 3, Len(t))
             name == BeforeEq(body)
             val  == SubSeq(body, Len(name) + 2, Len(body))
         IN  IF name \notin LongVocabulary THEN Some(name)
             ELSE IF name = "color" /\ Len(body) > Len(name) /\ val \notin ColorVocabulary
             THEN Some(val)
             ELSE None
    ELSE FirstUnknownChar(SubSeq(t, 2, Len(t)))

\* the offender of the first invalid token before any `--`, if any
RECURSIVE FirstOffender(_)
FirstOffender(ts) ==
    IF ts = <<>> \/ ts[1] = "--" THEN None
    ELSE IF Offender(ts[1]) # None THEN Offender(ts[1])
    ELSE FirstOffender(Tail(ts))

ends_with(s, suffix) ==
    Len(s) >= Len(suffix) /\ SubSeq(s, Len(s) - Len(suffix) + 1, Len(s)) = suffix

\* C2: parsing is all-or-nothing: parse returns Err exactly when a token
\* before any `--` holds an unknown long name, an unknown short character or
\* an unknown color value; the error string names the first such offender and
\* carries no Option Set; otherwise parse returns Ok.
C2_AllOrNothing ==
    pc = "parsed" =>
        IF FirstOffender(Tokens) # None
        THEN /\ is_err(parse_ret[1])
             /\ Len(parse_ret[1]) = 2
             /\ starts_with(parse_ret[1][2], "Unknown ")
             /\ ends_with(parse_ret[1][2], FirstOffender(Tokens)[1])
             /\ ls_args = None
        ELSE is_ok(parse_ret[1])

\* `-lZ` after a valid `-l`: the error names Z and nothing is returned,
\* although long_format had been set on the way
C2_Witness ==
    /\ ParsedErr
    /\ args = <<"ls", "--all", "-lZ", "--bogus">>
    /\ parse_ret[1] = Err("Unknown option: -Z")
    /\ result.long_format /\ result.all

\* the flag fields and the color of an Option Set
Flags(a) == [f \in BoolFields \cup {"color"} |-> a[f]]

\* the parser has met the token `--`
MetDashDash ==
    /\ pc \in {"parse", "parse_rest"}
    /\ \E i \in 1..Len(Consumed) : Consumed[i] = "--"

\* C3: once the parser has met `--`, every later token is appended to paths
\* verbatim and in order, no flag field changes, and no parse error is raised.
C3_AfterDashDash ==
    [][MetDashDash =>
          /\ Flags(result') = Flags(result)
          /\ args_iter # <<>> =>
                /\ result'.paths = Append(result.paths, Head(args_iter))
                /\ args_iter' = Tail(args_iter)
                /\ MetDashDash'
          /\ pc' = "parsed" => is_ok(parse_ret'[1])]_vars

\* `-l -- --bogus --`: the tokens after the first `--` are the paths
C3_Witness ==
    /\ ParsedOk
    /\ args = <<"ls", "--", "--bogus", "--">>
    /\ parse_ret[1][2].paths = <<"--bogus", "--">>
    /\ Flags(parse_ret[1][2]) = Flags(LsArgsDefault)

\* the letter documented for each field of LsArgs (args.rs:7-34)
LetterField ==
    [long_format |-> "l", all |-> "a", almost_all |-> "A", human_readable |-> "h",
     one_per_line |-> "1", recursive |-> "R", directory |-> "d", classify |-> "F",
     show_size |-> "s", sort_by_time |-> "t", sort_by_size |-> "S", reverse |-> "r",
     no_sort |-> "U", help |-> "?"]

\* the characters of a bundle, as a set
BundleChars(t) == {CharAt(t, i) : i \in 2..Len(t)}

\* a short-option bundle made only of characters of the vocabulary
VocabularyBundle(t) ==
    /\ Len(t) > 1 /\ CharAt(t, 1) = "-" /\ CharAt(t, 2) # "-"
    /\ BundleChars(t) \subseteq ShortVocabulary

\* a string backwards
RECURSIVE Reversed(_)
Reversed(s) == IF s = "" THEN "" ELSE Reversed(SubSeq(s, 2, Len(s))) \o CharAt(s, 1)

\* rearrangements of a bundle: its characters backwards, rotated by one, and
\* with the first character repeated at the end
Rearranged(t) ==
    LET cs == SubSeq(t, 2, Len(t))
    IN  {"-" \o Reversed(cs),
         "-" \o SubSeq(cs, 2, Len(cs)) \o CharAt(cs, 1),
         "-" \o cs \o CharAt(cs, 1)}

\* C4: a bundle of vocabulary characters sets exactly the fields of its
\* characters and leaves every other field unchanged, so that the result
\* depends only on the set of characters: not on their order or repetition
\* (parsing the bundle rearranged or with a character repeated gives the same).
C4_BundleOrderFree ==
    [][(pc = "parse" /\ args_iter # <<>> /\ VocabularyBundle(Head(args_iter))) =>
          /\ \A f \in BoolFields :
                result'[f] = (\/ result[f]
                              \/ /\ f \in DOMAIN LetterField
                                 /\ LetterField[f] \in BundleChars(Head(args_iter)))
          /\ result'.color = result.color
          /\ result'.paths = result.paths
          /\ pc' = "parse"
          /\ args_iter' = Tail(args_iter)
          /\ \A t \in Rearranged(Head(args_iter)) :
                result' = parse_short_options(result, t).a]_vars

\* `-sU` then `-lal`: long_format and all are set, the earlier fields kept
C4_Witness ==
    /\ ParsedOk
    /\ args = <<"ls", "-sU", "-lal">>
    /\ \A f \in BoolFields :
          parse_ret[1][2][f] = (f \in {"show_size", "no_sort", "long_format", "all"})

(***************************************************************************)
(* Properties of the translation engine (checked under SpecTranslate).     *)
(***************************************************************************)
\* the positions of s where sep occurs
Occurrences(s, sep) ==
    {i \in 1..(Len(s) - Len(sep) + 1) : SubSeq(s, i, i + Len(sep) - 1) = sep}

\* the pieces of s from position start on, cut at the occurrences at (left to
\* right, an occurrence overlapping the previous one does not count)
RECURSIVE SplitAt(_, _, _, _)
SplitAt(s, sep, at, start) ==
    LET left == {i \in at : i >= start}
    IN  IF left = {} THEN <<SubSeq(s, start, Len(s))>>
        ELSE LET i == CHOOSE x \in left : \A y \in left : x <= y
             IN  <<SubSeq(s, start, i - 1)>> \o SplitAt(s, sep, left \ {i}, i + Len(sep))

\* the pieces of s between the occurrences of sep
Split(s, sep) == SplitAt(s, sep, Occurrences(s, sep), 1)

\* the elements of a sequence that start with one of the prefixes
Starting(seq, prefixes) ==
    SelectSeq(seq, LAMBDA x : \E p \in prefixes : starts_with(x, p))

\* the elements of a sequence that are equal to v
Equal(seq, v) == SelectSeq(seq, LAMBDA x : x = v)

Translated == pc = "translated"
TheArgs == ls_args[1]
\* the space-separated tokens of the legacy command
CmdTokens == Split(translation[1].cmd_command, " ")
\* the stages of the modern pipeline
PsStages == Split(translation[1].powershell_command, " | ")

\* the legacy sort modifier the precedence no-sort > time > size > reverse asks for
LegacySortWanted(a) ==
    CASE a.no_sort -> <<>>
      [] ~a.no_sort /\ a.sort_by_time -> IF a.reverse THEN <<"/OD">> ELSE <<"/O-D">>
      [] ~a.no_sort /\ ~a.sort_by_time /\ a.sort_by_size ->
            IF a.reverse THEN <<"/OS">> ELSE <<"/O-S">>
      [] ~a.no_sort /\ ~a.sort_by_time /\ ~a.sort_by_size /\ a.reverse -> <<"/O-N">>
      [] OTHER -> <<>>

\* the modern sort stage the same precedence asks for
ModernSortWanted(a) ==
    CASE a.no_sort -> <<>>
      [] ~a.no_sort /\ a.sort_by_time ->
            IF a.reverse THEN <<"Sort-Object LastWriteTime">>
            ELSE <<"Sort-Object LastWriteTime -Descending">>
      [] ~a.no_sort /\ ~a.sort_by_time /\ a.sort_by_size ->
            IF a.reverse THEN <<"Sort-Object Length">>
            ELSE <<"Sort-Object Length -Descending">>
      [] ~a.no_sort /\ ~a.sort_by_time /\ ~a.sort_by_size /\ a.reverse ->
            <<"Sort-Object Name -Descending">>
      [] OTHER -> <<>>

\* C5: both command forms pick the sort by the strict precedence no-sort >
\* sort-by-time > sort-by-size > plain reverse and hold at most one sort
\* element: the legacy /OD, /O-D, /OS, /O-S or /O-N and the modern
\* Sort-Object stage are exactly the ones that precedence asks for.
C5_SortPrecedence ==
    Translated =>
        /\ Starting(CmdTokens, {"/O"}) = LegacySortWanted(TheArgs)
        /\ Starting(PsStages, {"Sort-Object"}) = ModernSortWanted(TheArgs)

\* time, size and reverse together: time wins, reverse gives /OD and removes
\* -Descending
C5_Witness ==
    /\ Translated
    /\ TheArgs.sort_by_time /\ TheArgs.sort_by_size /\ TheArgs.reverse /\ ~TheArgs.no_sort
    /\ translation[1].cmd_command = "dir /OD src"
    /\ translation[1].powershell_command = "Get-ChildItem -Path src | Sort-Object LastWriteTime"

\* C6: the legacy command begins with the base token `dir`, and the token /A
\* is present, as the first modifier after `dir`, exactly when all or
\* almost-all is set, whatever the other flags are.
C6_ShowHidden ==
    Translated =>
        /\ CmdTokens[1] = "dir"
        /\ (TheArgs.all \/ TheArgs.almost_all) <=> (Equal(CmdTokens, "/A") = <<"/A">>)
        /\ (TheArgs.all \/ TheArgs.almost_all) => (Len(CmdTokens) >= 2 /\ CmdTokens[2] = "/A")

\* almost-all alone, with long format and directory-only also set
C6_Witness ==
    /\ Translated
    /\ TheArgs.almost_all /\ ~TheArgs.all /\ TheArgs.long_format /\ TheArgs.directory
    /\ translation[1].cmd_command = "dir /A /AD \\A"

\* C7: long format takes precedence over one-per-line: the legacy command
\* holds /B exactly when one-per-line is set and long format is not; the
\* modern command has at most one formatting stage: Format-Table exactly when
\* long format is set, Select-Object -ExpandProperty Name exactly when
\* one-per-line is set and long format is not.
C7_LongBeatsBare ==
    Translated =>
        /\ (Equal(CmdTokens, "/B") # <<>>)
              <=> (TheArgs.one_per_line /\ ~TheArgs.long_format)
        /\ Starting(PsStages, {"Format-Table", "Select-Object"}) =
              IF TheArgs.long_format
              THEN <<"Format-Table Mode, LastWriteTime, Length, Name -AutoSize">>
              ELSE IF TheArgs.one_per_line THEN <<"Select-Object -ExpandProperty Name">>
              ELSE <<>>

\* long format and one-per-line together
C7_Witness ==
    /\ Translated
    /\ TheArgs.long_format /\ TheArgs.one_per_line
    /\ translation[1].cmd_command = "dir src"
    /\ translation[1].powershell_command =
          "Get-ChildItem -Path src | Format-Table Mode, LastWriteTime, Length, Name -AutoSize"

\* the seven flags of the description, in their fixed order, with their clauses
DescribedFlags ==
    <<<<"all", "show hidden files">>, <<"long_format", "long format">>,
      <<"recursive", "recursive">>, <<"sort_by_time", "sort by time">>,
      <<"sort_by_size", "sort by size">>, <<"reverse", "reverse order">>,
      <<"human_readable", "human-readable sizes">>>>

\* the clauses of the flags that are set, in that order
ClausesWanted(a) ==
    LET set == SelectSeq(DescribedFlags, LAMBDA fc : a[fc[1]])
    IN  [i \in 1..Len(set) |-> set[i][2]]

\* C8: the description is built only from all, long-format, recursive,
\* sort-by-time, sort-by-size, reverse and human-readable: with none of them
\* set it is exactly `list directory contents`; otherwise that phrase is
\* followed by one parenthetical holding the clause of each set flag, in that
\* order, joined by ", ".
C8_Description ==
    Translated =>
        LET d == translation[1].description
            base == "list directory contents"
        IN  IF ClausesWanted(TheArgs) = <<>> THEN d = base
            ELSE /\ starts_with(d, base \o " (")
                 /\ ends_with(d, ")")
                 /\ Split(SubSeq(d, Len(base) + 3, Len(d) - 1), ", ") = ClausesWanted(TheArgs)

\* almost-all and no-sort set, a path given: still the bare phrase
C8_Witness ==
    /\ Translated
    /\ TheArgs.almost_all /\ TheArgs.no_sort /\ TheArgs.one_per_line /\ TheArgs.directory
    /\ TheArgs.paths = <<"a/b c">>
    /\ translation[1].description = "list directory contents"

(***************************************************************************)
(* Properties of the whole program (checked under Spec).                   *)
(***************************************************************************)
\* the command of the backend the mode flags select
SelectedCommand(a, t) ==
    CASE a.use_powershell -> t.powershell_command
      [] ~a.use_powershell /\ a.use_cmd -> t.cmd_command
      [] ~a.use_powershell /\ ~a.use_cmd /\ (a.human_readable \/ a.long_format) ->
            t.powershell_command
      [] OTHER -> t.cmd_command

\* some line of the stream ends with the text
Shows(stream, text) == \E i \in 1..Len(stream) : ends_with(stream[i], text \o "\n")

\* execute has been entered: main has translated
InExecute == translation # None

\* C9: the presentation modes are handled before any process is spawned:
\* explain prints both commands and the description and spawns nothing, even
\* with native or teach set; otherwise native prints only the selected command
\* and spawns nothing, even with teach set; otherwise teach writes the selected
\* command to the error stream before the process is spawned, and the process
\* is then run.
C9_PresentationModes ==
    InExecute =>
        LET a == ls_args[1]
            t == translation[1]
        IN  /\ (a.explain \/ a.native) => spawned = <<>> /\ pc # "spawn"
            /\ (exec_ret # None /\ a.explain) =>
                  /\ Shows(stdout, t.cmd_command)
                  /\ Shows(stdout, t.powershell_command)
                  /\ Shows(stdout, t.description)
                  /\ stderr = <<>>
            /\ (exec_ret # None /\ ~a.explain /\ a.native) =>
                  /\ stdout = <<SelectedCommand(a, t) \o "\n">>
                  /\ stderr = <<>>
            /\ (~a.explain /\ ~a.native /\ a.teach /\ (pc = "spawn" \/ spawned # <<>>)) =>
                  /\ Len(stderr) >= 1
                  /\ ends_with(stderr[1], SelectedCommand(a, t) \o "\n")
            /\ (~a.explain /\ ~a.native /\ pc = "spawn") => spawned = <<>>
            /\ (~a.explain /\ ~a.native /\ exec_ret # None) =>
                  /\ Len(spawned) = 1
                  /\ spawned[1][2][Len(spawned[1][2])] = SelectedCommand(a, t)

\* explain, native and teach together: printed, nothing spawned
C9_Witness ==
    /\ pc = "exit"
    /\ args = <<"ls", "--teach", "--native", "--explain">>
    /\ spawned = <<>>
    /\ stderr = <<>>
    /\ Len(stdout) = 4
    /\ exit_code = Some(0)

\* C10: whenever parsing fails the invocation aborts before any translation,
\* help, version or cheat-sheet printing, tree view or execution: main writes
\* the error to the error stream and exits with a non-zero status, even when
\* a valid mode flag precedes the invalid token.
C10_ParseErrorAborts ==
    (parse_ret # None /\ is_err(parse_ret[1])) =>
        /\ pc \in {"parsed", "exit"}
        /\ ls_args = None
        /\ translation = None
        /\ exec_ret = None
        /\ stdout = <<>>
        /\ spawned = <<>>
        /\ pc = "exit" =>
              /\ exit_code # None /\ exit_code[1] # 0
              /\ Len(stderr) >= 1
              /\ ends_with(stderr[1], parse_ret[1][2] \o "\n")

\* `--help --bogus`: no help text, the error, status 1
C10_Witness ==
    /\ pc = "exit"
    /\ args = <<"ls", "--help", "--bogus">>
    /\ stdout = <<>>
    /\ stderr[1] = "ls-wrapper: Unknown option: --bogus\n"
    /\ exit_code = Some(1)

(***************************************************************************)
(* Path normalization (checked under SpecTranslate).                       *)
(***************************************************************************)
\* n is p with every `/` turned into `\` and nothing else changed
Backslashed(p, n) ==
    /\ Len(n) = Len(p)
    /\ \A i \in 1..Len(p) :
          CharAt(n, i) = IF CharAt(p, i) = "/" THEN "\\" ELSE CharAt(p, i)

\* n is the normal form of p: the home directory in place of a leading `~`
\* when the variable is set, the rest of p backslashed
Normalized(p, n) ==
    IF Len(p) >= 1 /\ CharAt(p, 1) = "~" /\ USERPROFILE # None
    THEN LET home == USERPROFILE[1]
         IN  /\ Len(n) = Len(home) + Len(p) - 1
             /\ SubSeq(n, 1, Len(home)) = home
             /\ Backslashed(SubSeq(p, 2, Len(p)), SubSeq(n, Len(home) + 1, Len(n)))
    ELSE Backslashed(p, n)

\* n as it is embedded in a command: in double quotes when it holds a space
Embedded(n) ==
    IF \E i \in 1..Len(n) : CharAt(n, i) = " " THEN "\"" \o n \o "\"" ELSE n

\* the text the paths of an Option Set add to a command, each after lead
RECURSIVE PathsText(_, _)
PathsText(ps, lead) ==
    IF ps = <<>> THEN ""
    ELSE lead \o Embedded(to_windows_path(ps[1])) \o PathsText(Tail(ps), lead)

\* C11: path normalization turns every `/` into `\` and, when the path
\* begins with `~` and the home-directory variable is set, replaces only that
\* first `~` by the variable's value (`~` stays when the variable is unset,
\* and a `~` elsewhere is never touched); each path is embedded in both
\* command forms in its normalized form, in double quotes exactly when the
\* normalized path holds a space.
C11_PathNormalization ==
    Translated =>
        /\ \A i \in 1..Len(TheArgs.paths) :
              Normalized(TheArgs.paths[i], to_windows_path(TheArgs.paths[i]))
        /\ ends_with(translation[1].cmd_command, PathsText(TheArgs.paths, " "))
        /\ ends_with(PsStages[1], PathsText(TheArgs.paths, " -Path "))
        /\ (TheArgs.paths = <<"a/b c">>) =>
              ends_with(translation[1].cmd_command, " \"a\\b c\"")
        /\ (TheArgs.paths = <<"~/a~">> /\ USERPROFILE = None) =>
              ends_with(translation[1].cmd_command, " ~\\a~")

\* `~/docs` with the home directory C:\Users\x
C11_Witness ==
    /\ Translated
    /\ USERPROFILE = Some("C:\\Users\\x")
    /\ TheArgs.paths = <<"~/docs">>
    /\ TheArgs.all
    /\ translation[1].cmd_command = "dir /A C:\\Users\\x\\docs"
    /\ translation[1].powershell_command = "Get-ChildItem -Force -Path C:\\Users\\x\\docs"

(***************************************************************************)
(* The help text's example and the exit status (checked under Spec).       *)
(***************************************************************************)
\* the EXAMPLES of print_help promise `dir /A .` for `ls --native -la`
HelpPromises == Occurrences(HelpText, "ls --native -la   Output: dir /A .\n") # {}

\* the program was invoked as `ls --native -la` and has finished
NativeLaDone == pc = "exit" /\ args = <<"ls", "--native", "-la">>

\* C12: as the built-in help text states, `ls --native -la` (no path, no
\* --cmd/--powershell flag) outputs exactly the legacy command `dir /A .`
\* and executes nothing.
C12_HelpExample ==
    NativeLaDone =>
        /\ HelpPromises
        /\ stdout = <<"dir /A .\n">>
        /\ spawned = <<>>

\* what `ls --native -la` does: -l selects the PowerShell backend, whose
\* command is printed, and nothing is executed
C12_Observed ==
    NativeLaDone =>
        /\ HelpPromises
        /\ stdout = <<"Get-ChildItem -Force -Path . | "
                          \o "Format-Table Mode, LastWriteTime, Length, Name -AutoSize\n">>
        /\ spawned = <<>>
        /\ exit_code = Some(0)

\* execute has returned the result of a process that finished unsuccessfully
ChildFailed ==
    /\ pc = "exit"
    /\ exec_ret # None
    /\ is_ok(exec_ret[1])
    /\ ~exec_ret[1][2].success

\* C13: whenever the spawned shell command finishes unsuccessfully (success
\* flag false, with any 32-bit exit code, or -1 when the code is missing), the
\* program's own exit status is non-zero: the conversion of the child's exit
\* code to the 8-bit exit status never turns a failure into status 0.
C13_FailureIsNonZero ==
    ChildFailed => exit_code # None /\ exit_code[1] # 0

\* the exit status after a failed child is its exit code modulo 256, which is
\* 0 exactly for the multiples of 256
C13_Observed ==
    ChildFailed =>
        /\ exit_code = Some(exec_ret[1][2].exit_code % 256)
        /\ exit_code[1] \in 0..255
        /\ (exit_code[1] = 0) <=> (exec_ret[1][2].exit_code % 256 = 0)

====
